---- MODULE Spec2Model ----
(***************************************************************************)
(* Model of src/tree.rs: the Action and Node data types of the CCS syntax  *)
(* tree and their renderers (Display for Action, infix, Display for Node   *)
(* through maxfmt, print_map).                                             *)
(*                                                                         *)
(* A Rust String is modelled as a sequence of characters, each character a *)
(* one-character TLA+ string, so that concatenation, parentheses, line     *)
(* breaks and leading spaces of the rendered text are all observable.      *)
(***************************************************************************)
EXTENDS Integers, Sequences, FiniteSets, TLC

VARIABLES
    node,         \* the Node handed to a renderer
    action,       \* the Action value owned by the caller
    new_channel,  \* argument of with_new_channel
    inserted,     \* the (key, value) pairs in the order they were inserted
    map,          \* the BTreeMap built from `inserted`
    build,        \* "debug" (overflow checks on) or "release" (wrapping)
    op,           \* the operation that produced `result`
    result,       \* the value returned by the last operation
    spine,        \* maxfmt call descent: variants of the nodes on the path
                  \* from the root of a deep tree down to its leaf
    pos,          \* maxfmt call descent: place on `spine` of the node of the
                  \* innermost active call
    indent,       \* maxfmt call descent: its u8 `indent` argument
    depth,        \* maxfmt call descent: true depth of that node below the root
    status        \* maxfmt call descent: "idle", "call", "return", "panic"

vars == <<node, action, new_channel, inserted, map, build, op, result,
          spine, pos, indent, depth, status>>

-----------------------------------------------------------------------------
(* Bounds of the model *)

\* largest number of Node positions in a tree handed to the renderers
MaxNodes == 3

\* largest number of insert calls that build a relabeling map
MaxInserts == 3

\* number of nested nodes above the leaf in the deep trees of the descent
ChainLen == 257

\* largest value of a u8
U8Max == 255

-----------------------------------------------------------------------------
(* Text *)

\* byte value of the characters used in map keys (String orders bytewise)
Code(c) ==
    CASE c = "B" -> 66
      [] c = "a" -> 97
      [] c = "b" -> 98
      [] OTHER -> 0

\* a < b for Strings: lexicographic on bytes, a proper prefix is smaller
RECURSIVE StrLess(_, _)
StrLess(a, b) ==
    IF b = <<>> THEN FALSE
    ELSE IF a = <<>> THEN TRUE
    ELSE IF Code(Head(a)) # Code(Head(b)) THEN Code(Head(a)) < Code(Head(b))
    ELSE StrLess(Tail(a), Tail(b))

\* str.repeat(n)
RECURSIVE Repeat(_, _)
Repeat(str, n) == IF n = 0 THEN <<>> ELSE str \o Repeat(str, n - 1)

-----------------------------------------------------------------------------
(* Action *)

In(s) == [dir |-> "In", ch |-> s]
Out(s) == [dir |-> "Out", ch |-> s]

\* the caller's binding after the value was moved out of it
Moved == [dir |-> "Moved", ch |-> <<>>]

\* impl Display for Action
DisplayActionOutAsIn(a) == <<"I", "n", "{">> \o a.ch \o <<"}">>

DisplayAction(a) ==
    IF a.dir = "In"
    THEN <<"I", "n", "{">> \o a.ch \o <<"}">>
    ELSE <<"O", "u", "t", "{">> \o a.ch \o <<"}">>

barKeepsOut(a) == IF a.dir = "In" THEN Out(a.ch) ELSE Out(a.ch)

bar(a) == IF a.dir = "In" THEN Out(a.ch) ELSE In(a.ch)

into_barKeepsIn(a) == IF a.dir = "In" THEN In(a.ch) ELSE In(a.ch)

into_bar(a) == IF a.dir = "In" THEN Out(a.ch) ELSE In(a.ch)

channel(a) == a.ch

with_new_channelAlwaysIn(a, n) == In(n)

with_new_channel(a, n) == IF a.dir = "In" THEN In(n) ELSE Out(n)

-----------------------------------------------------------------------------
(* Map = BTreeMap<String, String>: the entries, kept in ascending key order *)

EmptyMap == <<>>

\* BTreeMap::insert: replaces the value of a present key, otherwise puts the
\* entry at its place in key order
RECURSIVE BTreeInsert(_, _, _)
BTreeInsert(m, k, v) ==
    IF m = <<>> THEN << <<k, v>> >>
    ELSE IF Head(m)[1] = k THEN << <<k, v>> >> \o Tail(m)
    ELSE IF StrLess(k, Head(m)[1]) THEN << <<k, v>> >> \o m
    ELSE <<Head(m)>> \o BTreeInsert(Tail(m), k, v)

\* the map after the inserts ins[1], ins[2], ...
RECURSIVE BTreeFrom(_)
BTreeFrom(ins) ==
    IF ins = <<>> THEN EmptyMap
    ELSE LET last == ins[Len(ins)]
         IN  BTreeInsert(BTreeFrom(SubSeq(ins, 1, Len(ins) - 1)), last[1], last[2])

\* the loop of print_map over map.iter()
RECURSIVE PrintMapLoopNoLastSep(_, _, _)
PrintMapLoopNoLastSep(m, i, s) ==
    IF i > Len(m) THEN s
    ELSE PrintMapLoopNoLastSep(m, i + 1,
             s \o m[i][1] \o <<" ", "→", " ">> \o m[i][2]
               \o (IF i = Len(m) THEN <<>> ELSE <<",", " ">>))

RECURSIVE PrintMapLoop(_, _, _)
PrintMapLoop(m, i, s) ==
    IF i > Len(m) THEN s
    ELSE PrintMapLoop(m, i + 1,
             s \o m[i][1] \o <<" ", "→", " ">> \o m[i][2] \o <<",", " ">>)

print_map(m) == PrintMapLoop(m, 1, <<>>)

-----------------------------------------------------------------------------
(* Node *)

Recurse(string, n) == [tag |-> "Recurse", name |-> string, body |-> n]
Restrict(n, a) == [tag |-> "Restrict", body |-> n, action |-> a]
Relabel(n, m) == [tag |-> "Relabel", body |-> n, map |-> m]
Compose(na, nb) == [tag |-> "Compose", a |-> na, b |-> nb]
Choice(na, nb) == [tag |-> "Choice", a |-> na, b |-> nb]
Prefix(a, n) == [tag |-> "Prefix", action |-> a, body |-> n]
Name(string) == [tag |-> "Name", name |-> string]
Nil == [tag |-> "Nil"]

\* fn infix_recurse(node, s): the text of `s` once the call has returned
RECURSIVE infix_recurseChoiceUnclosed(_, _)
infix_recurseChoiceUnclosed(n, s) ==
    CASE n.tag = "Recurse" ->
           infix_recurseChoiceUnclosed(n.body, s \o <<"_", "r", "e", "c", " ">> \o n.name \o <<".">>)
      [] n.tag = "Restrict" ->
           infix_recurseChoiceUnclosed(n.body, s) \o <<"\\">> \o DisplayAction(n.action)
      [] n.tag = "Relabel" ->
           infix_recurseChoiceUnclosed(n.body, s) \o <<"[">> \o print_map(n.map) \o <<"]">>
      [] n.tag = "Compose" ->
           infix_recurseChoiceUnclosed(n.b,
               infix_recurseChoiceUnclosed(n.a, s \o <<"(">>) \o <<" ", "|", " ">>) \o <<")">>
      [] n.tag = "Choice" ->
           infix_recurseChoiceUnclosed(n.b,
               infix_recurseChoiceUnclosed(n.a, s \o <<"(">>) \o <<" ", "+", " ">>)
      [] n.tag = "Prefix" ->
           infix_recurseChoiceUnclosed(n.body, s \o DisplayAction(n.action) \o <<".">>)
      [] n.tag = "Name" -> s \o n.name
      [] n.tag = "Nil" -> s \o <<"n", "i", "l">>

RECURSIVE infix_recurse(_, _)
infix_recurse(n, s) ==
    CASE n.tag = "Recurse" ->
           infix_recurse(n.body, s \o <<"_", "r", "e", "c", " ">> \o n.name \o <<".">>)
      [] n.tag = "Restrict" ->
           infix_recurse(n.body, s) \o <<"\\">> \o DisplayAction(n.action)
      [] n.tag = "Relabel" ->
           infix_recurse(n.body, s) \o <<"[">> \o print_map(n.map) \o <<"]">>
      [] n.tag = "Compose" ->
           infix_recurse(n.b,
               infix_recurse(n.a, s \o <<"(">>) \o <<" ", "|", " ">>) \o <<")">>
      [] n.tag = "Choice" ->
           infix_recurse(n.b,
               infix_recurse(n.a, s \o <<"(">>) \o <<" ", "+", " ">>) \o <<")">>
      [] n.tag = "Prefix" ->
           infix_recurse(n.body, s \o DisplayAction(n.action) \o <<".">>)
      [] n.tag = "Name" -> s \o n.name
      [] n.tag = "Nil" -> s \o <<"n", "i", "l">>

\* Node::infix
infix(n) == infix_recurse(n, <<>>)

-----------------------------------------------------------------------------
(* Indented tree renderer *)

\* const TAB: &str = "   "
TABTwoSpaces == <<" ", " ">>

TAB == <<" ", " ", " ">>

\* what a call that panicked yields in place of a String
PANIC == <<"panic!">>

\* `indent + 1` on a u8 leaves the range of the type
Overflows(i) == i + 1 > U8Max

\* `indent + 1` on a u8 when overflow checks are off
IndentPlusOne(i) == (i + 1) % (U8Max + 1)

\* format!("{tabs}Label(\n{tabs}{tab}{},\n{}\n{tabs})", scalar, node)
ScalarBlockCloserJoined(label, tabs, scalar, child) ==
    IF child = PANIC THEN PANIC
    ELSE tabs \o label \o <<"(", "\n">> \o tabs \o TAB \o scalar \o <<",", "\n">>
              \o child \o tabs \o <<")">>

ScalarBlock(label, tabs, scalar, child) ==
    IF child = PANIC THEN PANIC
    ELSE tabs \o label \o <<"(", "\n">> \o tabs \o TAB \o scalar \o <<",", "\n">>
              \o child \o <<"\n">> \o tabs \o <<")">>

\* format!("{tabs}Label(\n{},\n{}\n{tabs})", node_a, node_b)
BinaryBlock(label, tabs, child_a, child_b) ==
    IF child_a = PANIC \/ child_b = PANIC THEN PANIC
    ELSE tabs \o label \o <<"(", "\n">> \o child_a \o <<",", "\n">>
              \o child_b \o <<"\n">> \o tabs \o <<")">>

\* fn maxfmt(indent: u8, node: &Node) -> String
RECURSIVE maxfmt(_, _)
maxfmt(i, n) ==
    LET tabs == Repeat(TAB, i)
        \* maxfmt(indent + 1, child)
        sub(c) == IF Overflows(i) /\ build = "debug" THEN PANIC
                  ELSE maxfmt(IndentPlusOne(i), c)
    IN  CASE n.tag = "Recurse" ->
               ScalarBlock(<<"R", "e", "c", "u", "r", "s", "e">>, tabs, n.name, sub(n.body))
          [] n.tag = "Restrict" ->
               ScalarBlock(<<"R", "e", "s", "t", "r", "i", "c", "t">>, tabs,
                           DisplayAction(n.action), sub(n.body))
          [] n.tag = "Relabel" ->
               ScalarBlock(<<"R", "e", "l", "a", "b", "e", "l">>, tabs,
                           print_map(n.map), sub(n.body))
          [] n.tag = "Compose" ->
               BinaryBlock(<<"C", "o", "m", "p", "o", "s", "e">>, tabs, sub(n.a), sub(n.b))
          [] n.tag = "Choice" ->
               BinaryBlock(<<"C", "h", "o", "i", "c", "e">>, tabs, sub(n.a), sub(n.b))
          [] n.tag = "Prefix" ->
               ScalarBlock(<<"P", "r", "e", "f", "i", "x">>, tabs,
                           DisplayAction(n.action), sub(n.body))
          [] n.tag = "Name" ->
               tabs \o <<"N", "a", "m", "e", "(", "\"">> \o n.name \o <<"\"", ")">>
          [] n.tag = "Nil" -> tabs \o <<"n", "i", "l">>

\* impl Display for Node
node_display(n) == maxfmt(0, n)

-----------------------------------------------------------------------------
(* Inputs *)

Builds == {"debug", "release"}

\* identifiers of Name leaves: two identifiers and two texts no parser yields
NameIds == {<<"P">>, <<"n", "i", "l">>, <<")">>, <<"\n">>}

RecNames == {<<"X">>}

NodeActions == {In(<<"a">>), Out(<<"a">>)}

NodeMaps == {EmptyMap, BTreeFrom(<< <<(<<"a">>), (<<"b">>)>> >>)}

Leaves == {Nil} \cup {Name(id) : id \in NameIds}

\* the trees with exactly k Node positions
RECURSIVE NodesOfSize(_)
NodesOfSize(k) ==
    IF k = 1 THEN Leaves
    ELSE LET below == NodesOfSize(k - 1)
         IN  {Recurse(x, n) : x \in RecNames, n \in below}
             \cup {Restrict(n, a) : n \in below, a \in NodeActions}
             \cup {Relabel(n, m) : n \in below, m \in NodeMaps}
             \cup {Prefix(a, n) : a \in NodeActions, n \in below}
             \cup UNION {
                    {Compose(l, r) : l \in NodesOfSize(j), r \in NodesOfSize(k - 1 - j)}
                    \cup {Choice(l, r) : l \in NodesOfSize(j), r \in NodesOfSize(k - 1 - j)}
                    : j \in 1..(k - 2)}

Nodes == UNION {NodesOfSize(k) : k \in 1..MaxNodes}

Channels == {<<>>, <<"a">>, <<"b">>, <<"a", "b">>, <<")">>}

Actions == {In(c) : c \in Channels} \cup {Out(c) : c \in Channels}

InsertKeys == {<<"a">>, <<"a", "b">>, <<"B">>}

InsertValues == {<<"a">>, <<"y">>}

InsertSeqs == UNION {[1..k -> InsertKeys \X InsertValues] : k \in 0..MaxInserts}

Compound == <<"Prefix", "Compose", "Choice", "Recurse", "Restrict", "Relabel">>

\* the root-to-leaf path of a tree of k nested compound nodes over a Nil
\* leaf: cycling through the compound variants when `mixed`, all Prefix
\* otherwise (the children off the path are leaves)
DeepSpine(k, mixed) ==
    [i \in 1..(k + 1) |->
        IF i = k + 1 THEN "Nil"
        ELSE IF mixed THEN Compound[(i % 6) + 1]
        ELSE "Prefix"]

DeepSpines == {DeepSpine(ChainLen, mixed) : mixed \in BOOLEAN}

IsLeaf(n) == n.tag \in {"Name", "Nil"}

IsBinary(n) == n.tag \in {"Compose", "Choice"}

\* the child Nodes a call of maxfmt or infix_recurse on n recurses into
Children(n) ==
    IF IsLeaf(n) THEN {}
    ELSE IF IsBinary(n) THEN {n.a, n.b}
    ELSE {n.body}

-----------------------------------------------------------------------------
(* Renderers and Action operations applied to bounded inputs *)

Idle == spine = <<>> /\ pos = 0 /\ indent = 0 /\ depth = 0 /\ status = "idle"

Init ==
    /\ op = "init"
    /\ result = <<>>
    /\ build \in Builds
    /\ Idle
    /\ \/ /\ node \in Nodes
          /\ action = In(<<"a">>)
          /\ new_channel = <<"a">>
          /\ inserted = <<>>
       \/ /\ node = Nil
          /\ action \in Actions
          /\ new_channel \in Channels
          /\ inserted = <<>>
       \/ /\ node = Nil
          /\ action = In(<<"a">>)
          /\ new_channel = <<"a">>
          /\ inserted \in InsertSeqs
    /\ map = BTreeFrom(inserted)

Inputs == <<node, new_channel, inserted, map, build, spine, pos, indent, depth, status>>

DoInfix ==
    /\ result' = infix(node)
    /\ op' = "infix"
    /\ UNCHANGED <<Inputs, action>>

DoDisplay ==
    /\ result' = node_display(node)
    /\ op' = "display"
    /\ UNCHANGED <<Inputs, action>>

DoPrintMap ==
    /\ result' = print_map(map)
    /\ op' = "print_map"
    /\ UNCHANGED <<Inputs, action>>

DoDisplayAction ==
    /\ action # Moved
    /\ result' = DisplayAction(action)
    /\ op' = "display_action"
    /\ UNCHANGED <<Inputs, action>>

DoBar ==
    /\ action # Moved
    /\ result' = bar(action)
    /\ op' = "bar"
    /\ UNCHANGED <<Inputs, action>>

DoIntoBar ==
    /\ action # Moved
    /\ result' = into_bar(action)
    /\ action' = Moved
    /\ op' = "into_bar"
    /\ UNCHANGED Inputs

DoChannel ==
    /\ action # Moved
    /\ result' = channel(action)
    /\ op' = "channel"
    /\ UNCHANGED <<Inputs, action>>

DoWithNewChannel ==
    /\ action # Moved
    /\ result' = with_new_channel(action, new_channel)
    /\ op' = "with_new_channel"
    /\ UNCHANGED <<Inputs, action>>

Next ==
    \/ DoInfix
    \/ DoDisplay
    \/ DoPrintMap
    \/ DoDisplayAction
    \/ DoBar
    \/ DoIntoBar
    \/ DoChannel
    \/ DoWithNewChannel

Spec == Init /\ [][Next]_vars

-----------------------------------------------------------------------------
(* The descent of maxfmt into a deep tree, one recursive call per step *)

InitDeep ==
    /\ spine \in DeepSpines
    /\ build \in Builds
    /\ node = Nil
    /\ action = In(<<"a">>)
    /\ new_channel = <<"a">>
    /\ inserted = <<>>
    /\ map = EmptyMap
    /\ op = "display"
    /\ result = <<>>
    /\ pos = 1
    /\ indent = 0
    /\ depth = 0
    /\ status = "call"

Caller == <<node, action, new_channel, inserted, map, build, op, result, spine>>

OnLeaf == spine[pos] \in {"Name", "Nil"}

\* maxfmt(indent + 1, child): panics on overflow in a debug build
CallOverflow ==
    /\ status = "call"
    /\ ~OnLeaf
    /\ Overflows(indent)
    /\ build = "debug"
    /\ status' = "panic"
    /\ UNCHANGED <<Caller, pos, indent, depth>>

\* maxfmt(indent + 1, child)
CallChild ==
    /\ status = "call"
    /\ ~OnLeaf
    /\ ~(Overflows(indent) /\ build = "debug")
    /\ pos' = pos + 1
    /\ indent' = IndentPlusOne(indent)
    /\ depth' = depth + 1
    /\ UNCHANGED <<Caller, status>>

\* the Name and Nil arms: the call returns its line
ReturnLeaf ==
    /\ status = "call"
    /\ OnLeaf
    /\ status' = "return"
    /\ UNCHANGED <<Caller, pos, indent, depth>>

NextDeep ==
    \/ CallOverflow
    \/ CallChild
    \/ ReturnLeaf

SpecDeep == InitDeep /\ [][NextDeep]_vars

-----------------------------------------------------------------------------
(* Vocabulary of the properties *)

\* the characters of identifiers as a parser would produce them
IdentChars == {"B", "P", "X", "a", "b", "i", "l", "n", "y"}

IsIdent(s) == Len(s) > 0 /\ \A i \in 1..Len(s) : s[i] \in IdentChars

HasNoParen(s) == \A i \in 1..Len(s) : s[i] \notin {"(", ")"}

\* every piece of text held by the tree: names, channels, map keys and values
RECURSIVE Texts(_)
Texts(n) ==
    CASE n.tag = "Recurse" -> {n.name} \cup Texts(n.body)
      [] n.tag = "Restrict" -> {n.action.ch} \cup Texts(n.body)
      [] n.tag = "Relabel" ->
           {n.map[i][1] : i \in 1..Len(n.map)} \cup {n.map[i][2] : i \in 1..Len(n.map)}
           \cup Texts(n.body)
      [] n.tag = "Compose" -> Texts(n.a) \cup Texts(n.b)
      [] n.tag = "Choice" -> Texts(n.a) \cup Texts(n.b)
      [] n.tag = "Prefix" -> {n.action.ch} \cup Texts(n.body)
      [] n.tag = "Name" -> {n.name}
      [] n.tag = "Nil" -> {}

IdentNode(n) == \A s \in Texts(n) : IsIdent(s)

NoParenNode(n) == \A s \in Texts(n) : HasNoParen(s)

\* the subtrees of n, n included
RECURSIVE Subtrees(_)
Subtrees(n) == {n} \cup UNION {Subtrees(c) : c \in Children(n)}

IsScalar(n) == n.tag \in {"Recurse", "Restrict", "Relabel", "Prefix"}

\* the text of the tree is identifiers and no Name is the reserved word nil
PlainNode(n) ==
    /\ IdentNode(n)
    /\ \A t \in Subtrees(n) : t.tag = "Name" => t.name # <<"n", "i", "l">>

\* no postfix operator (Restrict, Relabel) is applied to a prefix operator
\* (Prefix, Recurse)
Canonical(n) ==
    /\ PlainNode(n)
    /\ \A t \in Subtrees(n) :
          t.tag \in {"Restrict", "Relabel"} => t.body.tag \notin {"Prefix", "Recurse"}

PlainNodes == {n \in Nodes : PlainNode(n)}

CanonicalNodes == {n \in Nodes : Canonical(n)}

\* every tree with plain identifiers, paired with its infix text
PlainReadings == {<<infix(n), n>> : n \in PlainNodes}

CanonicalReadings == {<<infix(n), n>> : n \in CanonicalNodes}

\* display(a) as the specification gives it: In{ch} or Out{ch}
DisplayOf(a) ==
    (IF a.dir = "Out" THEN <<"O", "u", "t">> ELSE <<"I", "n">>) \o <<"{">> \o a.ch \o <<"}">>

\* relabel-pairs: the entries taken smallest key first
RECURSIVE RelabelPairs(_)
RelabelPairs(E) ==
    IF E = {} THEN <<>>
    ELSE LET e == CHOOSE x \in E : \A y \in E \ {x} : StrLess(x[1], y[1])
         IN  e[1] \o <<" ", "→", " ">> \o e[2] \o <<",", " ">> \o RelabelPairs(E \ {e})

Entries(m) == {m[i] : i \in 1..Len(m)}

\* what a sequence of inserts leaves in a mapping with unique keys
LastWrites(ins) ==
    {ins[i] : i \in {j \in 1..Len(ins) : \A k \in (j + 1)..Len(ins) : ins[k][1] # ins[j][1]}}

\* the output template of the infix notation, variant by variant
RECURSIVE InfixTable(_)
InfixTable(n) ==
    CASE n.tag = "Recurse" -> <<"_", "r", "e", "c", " ">> \o n.name \o <<".">> \o InfixTable(n.body)
      [] n.tag = "Restrict" -> InfixTable(n.body) \o <<"\\">> \o DisplayOf(n.action)
      [] n.tag = "Relabel" -> InfixTable(n.body) \o <<"[">> \o RelabelPairs(Entries(n.map)) \o <<"]">>
      [] n.tag = "Compose" -> <<"(">> \o InfixTable(n.a) \o <<" ", "|", " ">> \o InfixTable(n.b) \o <<")">>
      [] n.tag = "Choice" -> <<"(">> \o InfixTable(n.a) \o <<" ", "+", " ">> \o InfixTable(n.b) \o <<")">>
      [] n.tag = "Prefix" -> DisplayOf(n.action) \o <<".">> \o InfixTable(n.body)
      [] n.tag = "Name" -> n.name
      [] n.tag = "Nil" -> <<"n", "i", "l">>

\* the number of characters c among the first i characters of s
CountUpTo(s, c, i) == Cardinality({j \in 1..i : s[j] = c})

\* scanning s left to right, the count of ")" never exceeds the count of "("
\* and the two are equal at the end
Balanced(s) ==
    /\ \A i \in 1..Len(s) : CountUpTo(s, ")", i) <= CountUpTo(s, "(", i)
    /\ CountUpTo(s, ")", Len(s)) = CountUpTo(s, "(", Len(s))

\* the positions of the line breaks of s
Breaks(s) == {i \in 1..Len(s) : s[i] = "\n"}

\* the position of the k-th line break of s; 0 for k = 0, Len(s) + 1 past the last
BreakAt(s, k) ==
    IF k = 0 THEN 0
    ELSE IF k > Cardinality(Breaks(s)) THEN Len(s) + 1
    ELSE CHOOSE i \in Breaks(s) : Cardinality({j \in Breaks(s) : j <= i}) = k

\* the lines of a text, split at the line breaks
Lines(s) ==
    [k \in 1..(Cardinality(Breaks(s)) + 1) |->
        SubSeq(s, BreakAt(s, k - 1) + 1, BreakAt(s, k) - 1)]

\* the number of spaces a line starts with
LeadingSpaces(line) ==
    Cardinality({i \in 1..Len(line) : \A j \in 1..i : line[j] = " "})

RECURSIVE CountNodes(_)
CountNodes(n) ==
    IF IsLeaf(n) THEN 1
    ELSE IF IsBinary(n) THEN 1 + CountNodes(n.a) + CountNodes(n.b)
    ELSE 1 + CountNodes(n.body)

RECURSIVE CountScalar(_)
CountScalar(n) ==
    IF IsLeaf(n) THEN 0
    ELSE IF IsBinary(n) THEN CountScalar(n.a) + CountScalar(n.b)
    ELSE 1 + CountScalar(n.body)

RECURSIVE CountCompound(_)
CountCompound(n) ==
    IF IsLeaf(n) THEN 0
    ELSE IF IsBinary(n) THEN 1 + CountCompound(n.a) + CountCompound(n.b)
    ELSE 1 + CountCompound(n.body)

\* the depth of the position each line of the tree form belongs to
RECURSIVE LineDepths(_, _)
LineDepths(n, d) ==
    IF IsLeaf(n) THEN <<d>>
    ELSE IF IsBinary(n) THEN <<d>> \o LineDepths(n.a, d + 1) \o LineDepths(n.b, d + 1) \o <<d>>
    ELSE <<d, d + 1>> \o LineDepths(n.body, d + 1) \o <<d>>

-----------------------------------------------------------------------------
(* Properties *)

\* C1: infix(t) is the text the per-variant output template defines
\* recursively, the left child's text before the right child's and an action
\* shown as In{ch} or Out{ch}.
C1_InfixFollowsTable == (op = "infix") => result = InfixTable(node)

C1_Witness ==
    /\ op = "infix"
    /\ node.tag \in {"Compose", "Choice"}
    /\ node.a # node.b

\* C2 as stated: two different trees whose names and channels are plain
\* identifiers (nil taken as reserved) never have the same infix text.
C2_InfixUnambiguous ==
    (op = "infix" /\ PlainNode(node)) =>
        \A r \in PlainReadings : r[1] = result => r[2] = node

\* C2 amended: two different trees whose names and channels are plain
\* identifiers (nil taken as reserved) have different infix texts when
\* neither applies Restrict or Relabel to a Prefix or Recurse body.
C2_InfixUnambiguousCanonical ==
    (op = "infix" /\ Canonical(node)) =>
        \A r \in CanonicalReadings : r[1] = result => r[2] = node

C2_Witness ==
    /\ op = "infix"
    /\ Canonical(node)
    /\ node.tag = "Prefix"
    /\ node.body.tag \in {"Restrict", "Relabel"}

\* C3 as stated: the descent of tree_format never fails and the indent passed
\* to each recursive call is the true depth of the node it formats.
C3_TotalWithTrueDepth == status # "panic" /\ indent = depth

\* C4 as stated: whatever text the tree holds, the parentheses of infix(t)
\* are balanced.
C4_BalancedForAnyText == (op = "infix") => Balanced(result)

\* C4 amended: the parentheses of infix(t) are balanced when no name, channel,
\* map key or map value of t contains a parenthesis.
C4_BalancedWithoutParenText == (op = "infix" /\ NoParenNode(node)) => Balanced(result)

C4_Witness ==
    /\ op = "infix"
    /\ NoParenNode(node)
    /\ node.tag \in {"Compose", "Choice"}

\* C5 as stated: for a tree with identifier text, tree_format(t) has one line
\* per Node position plus one per scalar-argument node.
C5_LinesNodesPlusScalars ==
    (op = "display" /\ IdentNode(node)) =>
        Len(Lines(result)) = CountNodes(node) + CountScalar(node)

\* C5 amended: for a tree with identifier text, tree_format(t) has one line
\* per Node position, plus one per scalar-argument node, plus one closing
\* line per compound node (Recurse, Restrict, Relabel, Compose, Choice,
\* Prefix).
C5_LinesWithClosers ==
    (op = "display" /\ IdentNode(node)) =>
        Len(Lines(result)) = CountNodes(node) + CountScalar(node) + CountCompound(node)

C5_Witness ==
    /\ op = "display"
    /\ IdentNode(node)
    /\ IsScalar(node)
    /\ ~IsLeaf(node.body)

C7_RelabelPairsAscending ==
    /\ (op = "print_map") => result = RelabelPairs(LastWrites(inserted))
    /\ (op = "print_map" /\ inserted = <<>>) => result = <<>>
    /\ (op = "infix" /\ node.tag = "Relabel" /\ node.map = EmptyMap) =>
           SubSeq(result, Len(result) - 1, Len(result)) = <<"[", "]">>

C7_Witness ==
    /\ op = "print_map"
    /\ Len(map) >= 2
    /\ StrLess(inserted[2][1], inserted[1][1])

\* C8: bar flips In to Out and Out to In, keeps the channel, and applying it
\* twice gives the Action back.
C8_BarIsInvolution ==
    (op = "bar") =>
        /\ bar(result) = action
        /\ channel(result) = channel(action)
        /\ (action.dir = "In" => result.dir = "Out")
        /\ (action.dir = "Out" => result.dir = "In")

C8_Witness == op = "bar" /\ action.dir = "Out" /\ action.ch # <<>>

\* C9: with_new_channel(a, n) has channel n and the direction of a, and a is
\* left unchanged.
C9_WithNewChannel ==
    [][(op' = "with_new_channel") =>
          /\ channel(result') = new_channel
          /\ result'.dir = action.dir
          /\ action' = action]_vars

C9_Witness ==
    /\ op = "with_new_channel"
    /\ action.dir = "Out"
    /\ new_channel # channel(action)

\* C10: the consuming into_bar returns the Action that bar returns on the
\* value it consumes.
C10_IntoBarEqualsBar == [][(op' = "into_bar") => result' = bar(action)]_vars

C10_Witness == op = "into_bar" /\ action = Moved /\ result.dir = "In"

====
